---- MODULE Spec2Model ----
(***************************************************************************)
(* A model of the path tracer: sphere/scene intersection (scene.rs), the   *)
(* radiance estimator ray_color and the two render loops (camera.rs), the  *)
(* camera's derived fields (camera.rs) and pixel finalisation (color.rs).  *)
(*                                                                         *)
(* f64 values are modelled as exact rationals <<n, d>> with d > 0, plus    *)
(* the IEEE specials the code can produce: NaN = <<0, 0>>, +inf = <<1, 0>> *)
(* and -inf = <<-1, 0>>.  Rounding error is not modelled; sqrt is taken    *)
(* only of values whose root is rational (the inputs are chosen so).       *)
(***************************************************************************)
EXTENDS Integers, Sequences, FiniteSets, TLC

VARIABLES
    \* scene.rs: a Scene under construction and the last hit queries on it
    hittables,      \* Scene.hittables: sequence of spheres
    hq,             \* the last query: [op, ray, tmin, tmax, idx] or NoQuery
    hres,           \* its result: a HitRecord or None
    \* color.rs / image.rs: one pixel of a PPM, accumulated and written
    px_spp,         \* PPM.samples_per_pixel
    px_n,           \* samples added to the pixel so far
    px_sum,         \* the pixel's RGB: the sum of its samples
    px_out,         \* the three integers RGB::write prints, or None
    \* camera.rs: one evaluation of ray_color(ray, max_bounces, scene)
    rc_hs,          \* the scene
    rc_mb,          \* max_bounces, the depth of the outermost call
    rc_frames,      \* the active calls, outermost first: [ray, depth, att]
    rc_ret,         \* the value the last finished call returned, or None
    rc_hits,        \* scene.hit calls made so far
    rc_scatters,    \* material.scatter calls made so far
    rc_steps,       \* steps taken so far
    rc_walk,        \* the bounce chain so far, walked front to back
    \* camera.rs: a Camera, the Renderer made from it, and the last render
    cam,            \* the Camera: its configuration and derived fields
    rend,           \* the Renderer of the last renderer() call, or None
    sampled,        \* the sample_ray calls of the render just made, or None
    \* camera.rs: one render, by Camera::render or Renderer::render_parallel
    rn,             \* the render: [by, width, height, spp, mb, scene]
    rn_out,         \* what ray_color can return for one sample of this render
    rn_pc,          \* where the render is: start, tasks, loop, collected, returned
    rn_rows,        \* render_parallel: the rows whose closure has started
    rn_slots,       \* render_parallel: the result of each finished pixel closure
    rn_pixels,      \* render_parallel: the Vec `pixels` once collect has returned
    rn_k,           \* Camera::render: the pixels its loops have assigned
    rn_image        \* the PPM's data, or None before PPM::new

hitVars == <<hittables, hq, hres>>

pxVars == <<px_spp, px_n, px_sum, px_out>>

rcVars == <<rc_hs, rc_mb, rc_frames, rc_ret, rc_hits, rc_scatters, rc_steps, rc_walk>>

camVars == <<cam, rend, sampled>>

rnVars == <<rn, rn_out, rn_pc, rn_rows, rn_slots, rn_pixels, rn_k, rn_image>>

vars == <<hittables, hq, hres, px_spp, px_n, px_sum, px_out,
          rc_hs, rc_mb, rc_frames, rc_ret, rc_hits, rc_scatters, rc_steps, rc_walk,
          cam, rend, sampled,
          rn, rn_out, rn_pc, rn_rows, rn_slots, rn_pixels, rn_k, rn_image>>

\* the parts of the state an operation of one part leaves alone
notHit == <<pxVars, rcVars, camVars, rnVars>>

notPx == <<hitVars, rcVars, camVars, rnVars>>

notRc == <<hitVars, pxVars, camVars, rnVars>>

notCam == <<hitVars, pxVars, rcVars, rnVars>>

notRn == <<hitVars, pxVars, rcVars, camVars>>

----------------------------------------------------------------------------
(* Bounds of the model *)

\* the most spheres a scene holds
MaxSpheres == 2

\* the largest samples_per_pixel
MaxSpp == 4

\* the largest max_bounces
MaxBounces == 2

\* the largest render_width of a camera
MaxWidth == 1

\* the most pixels of a rendered image
MaxPixels == 3

\* the largest samples_per_pixel of a render
MaxSamples == 2

\* the largest depth of a ray_color call followed along its bounce chain
MaxDepth == 3

\* the significant bits a product of two colours keeps (an f64 keeps 53)
Mantissa == 4

----------------------------------------------------------------------------
(* f64 as exact rationals with NaN and the infinities *)

Abs(x) == IF x < 0 THEN -x ELSE x

Sgn(x) == IF x < 0 THEN -1 ELSE IF x > 0 THEN 1 ELSE 0

RECURSIVE Gcd(_, _)
Gcd(a, b) == IF b = 0 THEN a ELSE Gcd(b, a % b)

NaN == <<0, 0>>

\* a rational in lowest terms with positive denominator; x/0 as IEEE gives it
Frac(n, d) ==
    IF d = 0 THEN <<Sgn(n), 0>>
    ELSE LET g == Gcd(Abs(n), Abs(d))
             s == Sgn(d)
         IN  <<(s * n) \div g, (s * d) \div g>>

F(n) == <<n, 1>>

IsNaN(x) == x[1] = 0 /\ x[2] = 0

IsInf(x) == x[1] # 0 /\ x[2] = 0

IsFinite(x) == x[2] # 0

FNeg(x) == <<-x[1], x[2]>>

FAdd(x, y) ==
    IF IsNaN(x) \/ IsNaN(y) THEN NaN
    ELSE IF IsInf(x) /\ IsInf(y) THEN (IF x[1] = y[1] THEN x ELSE NaN)
    ELSE IF IsInf(x) THEN x
    ELSE IF IsInf(y) THEN y
    ELSE Frac(x[1] * y[2] + y[1] * x[2], x[2] * y[2])

FSub(x, y) == FAdd(x, FNeg(y))

FMul(x, y) ==
    IF IsNaN(x) \/ IsNaN(y) THEN NaN
    ELSE IF IsInf(x) \/ IsInf(y) THEN <<Sgn(x[1]) * Sgn(y[1]), 0>>
    ELSE LET a == Frac(x[1], y[2])
             b == Frac(y[1], x[2])
         IN  <<a[1] * b[1], a[2] * b[2]>>

FDiv(x, y) ==
    IF IsNaN(x) \/ IsNaN(y) THEN NaN
    ELSE IF IsInf(x) THEN (IF IsInf(y) THEN NaN
                           ELSE <<x[1] * (IF y[1] < 0 THEN -1 ELSE 1), 0>>)
    ELSE IF IsInf(y) THEN F(0)
    ELSE Frac(x[1] * y[2], x[2] * y[1])

\* the comparisons of f64: every comparison with NaN is false
FLe(x, y) ==
    /\ ~IsNaN(x)
    /\ ~IsNaN(y)
    /\ IF x[2] = 0 /\ y[2] = 0 THEN x[1] <= y[1]
       ELSE x[1] * y[2] <= y[1] * x[2]

FLt(x, y) ==
    /\ ~IsNaN(x)
    /\ ~IsNaN(y)
    /\ IF x[2] = 0 /\ y[2] = 0 THEN x[1] < y[1]
       ELSE x[1] * y[2] < y[1] * x[2]

FGe(x, y) == FLe(y, x)

FGt(x, y) == FLt(y, x)

IsSquare(n) == n >= 0 /\ \E k \in 0..n : k * k = n

ISqrt(n) == CHOOSE k \in 0..n : k * k = n

\* the values whose f64 square root the model computes exactly
SqrtExact(x) ==
    \/ ~IsFinite(x)
    \/ x[1] < 0
    \/ IsSquare(x[1]) /\ IsSquare(x[2])

FSqrt(x) ==
    IF IsNaN(x) \/ x[1] < 0 THEN NaN
    ELSE IF IsInf(x) THEN x
    ELSE <<ISqrt(x[1]), ISqrt(x[2])>>

----------------------------------------------------------------------------
(* Vector3<f64> / Point3<f64>: triples of f64 *)

V(x, y, z) == <<F(x), F(y), F(z)>>

VAdd(a, b) == <<FAdd(a[1], b[1]), FAdd(a[2], b[2]), FAdd(a[3], b[3])>>

VSub(a, b) == <<FSub(a[1], b[1]), FSub(a[2], b[2]), FSub(a[3], b[3])>>

VNeg(a) == <<FNeg(a[1]), FNeg(a[2]), FNeg(a[3])>>

VScale(k, a) == <<FMul(k, a[1]), FMul(k, a[2]), FMul(k, a[3])>>

VDivF(a, k) == <<FDiv(a[1], k), FDiv(a[2], k), FDiv(a[3], k)>>

VDot(a, b) == FAdd(FAdd(FMul(a[1], b[1]), FMul(a[2], b[2])), FMul(a[3], b[3]))

VNormSq(a) == VDot(a, a)

VCross(a, b) ==
    <<FSub(FMul(a[2], b[3]), FMul(a[3], b[2])),
      FSub(FMul(a[3], b[1]), FMul(a[1], b[3])),
      FSub(FMul(a[1], b[2]), FMul(a[2], b[1]))>>

VNormalize(a) == VDivF(a, FSqrt(VNormSq(a)))

----------------------------------------------------------------------------
(* ray.rs *)

Ray(orig, dir) == [orig |-> orig, dir |-> dir]

\* Ray::at
RayAt(ray, t) == VAdd(ray.orig, VScale(t, ray.dir))

----------------------------------------------------------------------------
(* color.rs: RGB and its finalisation in RGB::write *)

RGB(r, g, b) == <<r, g, b>>

Black == RGB(F(0), F(0), F(0))

White == RGB(F(1), F(1), F(1))

Grey == RGB(Frac(1, 2), Frac(1, 2), Frac(1, 2))

SkyBlue == RGB(Frac(1, 2), Frac(7, 10), F(1))

\* sample_result += vector![color.0, color.1, color.2]
ColorAdd(a, b) == <<FAdd(a[1], b[1]), FAdd(a[2], b[2]), FAdd(a[3], b[3])>>

\* n / d rounded to the nearest integer, a tie to the even one (n >= 0, d > 0)
RoundHalfEven(n, d) ==
    IF 2 * (n % d) < d THEN n \div d
    ELSE IF 2 * (n % d) > d THEN (n \div d) + 1
    ELSE IF (n \div d) % 2 = 0 THEN n \div d
    ELSE (n \div d) + 1

\* n / d > 0 rounded to p significant bits: scaled by the power of two a / b
\* that brings it into [2^(p-1), 2^p), rounded to an integer, scaled back
RECURSIVE RoundBits(_, _, _, _, _)
RoundBits(n, d, a, b, p) ==
    IF n * a < (2 ^ (p - 1)) * d * b THEN RoundBits(n, d, 2 * a, b, p)
    ELSE IF n * a >= (2 ^ p) * d * b THEN RoundBits(n, d, a, 2 * b, p)
    ELSE Frac(RoundHalfEven(n * a, d * b) * b, a)

\* the rounding of an f64 operation's exact result: to the nearest value of
\* Mantissa significant bits, ties to even; zero, NaN and the infinities as
\* they are
FRound(x) ==
    IF x[2] = 0 \/ x[1] = 0 THEN x
    ELSE FMul(F(Sgn(x[1])), RoundBits(Abs(x[1]), x[2], 1, 1, Mantissa))

\* impl Mul for RGB: RGB(self.0 * rhs.0, self.1 * rhs.1, self.2 * rhs.2),
\* each product rounded as f64 rounds it
ColorMul(a, b) == <<FRound(FMul(a[1], b[1])), FRound(FMul(a[2], b[2])), FRound(FMul(a[3], b[3]))>>

\* A gamma-corrected value is a square root, irrational in general.  The
\* values of RGB::write after the square root are non-negative (or NaN) and
\* are held exactly: Root(x) is the f64 whose square is x, Lit(x) is x.
Root(x) == [k |-> "root", v |-> x]

Lit(x) == [k |-> "lit", v |-> x]

Sq(a) == IF a.k = "root" THEN a.v ELSE FMul(a.v, a.v)

\* utils::gamma_correct: linear.sqrt()
GammaCorrect(linear) ==
    IF IsNaN(linear) \/ linear[1] < 0 THEN Lit(NaN) ELSE Root(linear)

\* nalgebra::clamp: if val > min { if val < max { val } else { max } } else { min }
Clamp(val, min, max) ==
    IF FGt(Sq(val), Sq(min))
    THEN (IF FLt(Sq(val), Sq(max)) THEN val ELSE max)
    ELSE min

\* `x as u8` of a non-negative value: floor, saturating at 255, NaN to 0
AsU8(a) ==
    IF IsNaN(a.v) THEN 0
    ELSE IF IsInf(a.v) THEN 255
    ELSE LET ks == IF a.k = "root"
                   THEN {k \in 0..255 : k * k * a.v[2] <= a.v[1]}
                   ELSE {k \in 0..255 : k * a.v[2] <= a.v[1]}
         IN  CHOOSE k \in ks : \A j \in ks : j <= k

\* m * a, for a literal m >= 0
Times(m, a) ==
    IF a.k = "root" THEN Root(FMul(F(m * m), a.v)) ELSE Lit(FMul(F(m), a.v))

\* one channel of RGB::write with 255.0 in place of 256.0
WriteChannel255(c, spp) ==
    LET scale == FDiv(F(1), F(spp))
    IN  AsU8(Times(255, Clamp(GammaCorrect(FMul(c, scale)), Lit(F(0)), Lit(Frac(999, 1000)))))

\* one channel of RGB::write
WriteChannel(c, spp) ==
    LET scale == FDiv(F(1), F(spp))
    IN  AsU8(Times(256, Clamp(GammaCorrect(FMul(c, scale)), Lit(F(0)), Lit(Frac(999, 1000)))))

\* RGB::write: the three integers of the pixel's line
RGBWrite(rgb, spp) ==
    <<WriteChannel(rgb[1], spp), WriteChannel(rgb[2], spp), WriteChannel(rgb[3], spp)>>

----------------------------------------------------------------------------
(* material.rs: the three materials, as values *)

Lambertian(albedo) == [kind |-> "lambertian", albedo |-> albedo, fuzz |-> F(0), ri |-> F(0)]

Metal(albedo, fuzz) == [kind |-> "metal", albedo |-> albedo, fuzz |-> fuzz, ri |-> F(0)]

Dielectric(ri) == [kind |-> "dielectric", albedo |-> RGB(F(0), F(0), F(0)), fuzz |-> F(0), ri |-> ri]

----------------------------------------------------------------------------
(* scene.rs: Sphere and Scene *)

None == [none |-> TRUE]

\* the lower end of ray_color's interval (0.001, INF)
MinT == Frac(1, 1000)

\* f64::MAX (utils::INF): above every finite value the model computes
INF == <<1, 0>>

Sphere(center, radius, material) ==
    [center |-> center, radius |-> radius, material |-> material]

\* the discriminant of Sphere::hit, whose square root is taken
Discriminant(sphere, ray) ==
    LET oc     == VSub(ray.orig, sphere.center)
        a      == VNormSq(ray.dir)
        half_b == VDot(oc, ray.dir)
        c      == FSub(VNormSq(oc), FMul(sphere.radius, sphere.radius))
    IN  FSub(FMul(half_b, half_b), FMul(a, c))

\* the range test with a root on either end of the range let through
OutOfRangeClosed(root, tmin, tmax) == FLt(root, tmin) \/ FGt(root, tmax)

\* `root <= trange.start || root >= trange.end`
OutOfRange(root, tmin, tmax) == FLe(root, tmin) \/ FGe(root, tmax)

\* the record Sphere::hit returns, with its normal turned against the ray
FacedHit(sphere, root, hitpoint, normal, outside) ==
    [t        |-> root,
     p        |-> hitpoint,
     normal   |-> IF outside THEN normal ELSE VNeg(normal),
     front    |-> outside,
     material |-> sphere.material]

\* `let outside = ray.dir.dot(&normal) < 0.0`
NormalHit(sphere, ray, root, hitpoint, normal) ==
    FacedHit(sphere, root, hitpoint, normal, FLt(VDot(ray.dir, normal), F(0)))

\* `let normal = (hitpoint - self.center) / self.radius`
PointHit(sphere, ray, root, hitpoint) ==
    NormalHit(sphere, ray, root, hitpoint,
              VDivF(VSub(hitpoint, sphere.center), sphere.radius))

\* the hit record Sphere::hit builds for an accepted root
MakeHit(sphere, ray, root) == PointHit(sphere, ray, root, RayAt(ray, root))

\* the two candidate roots of Sphere::hit
NearRoot(half_b, sqrtd, a) == FDiv(FSub(FNeg(half_b), sqrtd), a)

FarRoot(half_b, sqrtd, a) == FDiv(FAdd(FNeg(half_b), sqrtd), a)

\* "Try both roots"
TryRoots(sphere, ray, tmin, tmax, near, far) ==
    IF OutOfRange(near, tmin, tmax)
    THEN IF OutOfRange(far, tmin, tmax) THEN None
         ELSE MakeHit(sphere, ray, far)
    ELSE MakeHit(sphere, ray, near)

\* Sphere::hit from a, half_b and the discriminant
SolveHit(sphere, ray, tmin, tmax, a, half_b, discriminant) ==
    IF FLt(discriminant, F(0)) THEN None
    ELSE TryRoots(sphere, ray, tmin, tmax,
                  NearRoot(half_b, FSqrt(discriminant), a),
                  FarRoot(half_b, FSqrt(discriminant), a))

\* <Sphere as Hittable>::hit
SphereHit(sphere, ray, tmin, tmax) ==
    SolveHit(sphere, ray, tmin, tmax,
             VNormSq(ray.dir),
             VDot(VSub(ray.orig, sphere.center), ray.dir),
             Discriminant(sphere, ray))

\* the body of the closure of Scene::hit: st = <<closest_so_far, result>>
Closer(st, hit) == IF hit # None THEN <<hit.t, hit>> ELSE st

\* the fold of <Scene as Hittable>::hit over members k..Len(hs)
RECURSIVE SceneScan(_, _, _, _, _)
SceneScan(hs, k, ray, tmin, st) ==
    IF k > Len(hs) THEN st
    ELSE SceneScan(hs, k + 1, ray, tmin,
                   Closer(st, SphereHit(hs[k], ray, tmin, st[1])))

\* <Scene as Hittable>::hit
SceneHit(hs, ray, tmin, tmax) == SceneScan(hs, 1, ray, tmin, <<tmax, None>>)[2]

----------------------------------------------------------------------------
(* utils.rs and material.rs: scattering.  The random draws of a scatter    *)
(* call are its argument rnd = [u |-> rand_unit_vector(), r |-> rand()].   *)

FAbs(x) == <<Abs(x[1]), x[2]>>

\* f64::min: a NaN argument is ignored
FMin(x, y) == IF IsNaN(x) THEN y ELSE IF IsNaN(y) THEN x ELSE IF FLe(x, y) THEN x ELSE y

\* f64::powi for a small exponent
RECURSIVE FPowi(_, _)
FPowi(x, n) == IF n = 0 THEN F(1) ELSE FMul(x, FPowi(x, n - 1))

\* 1e-8 is 1 / EpsDen
EpsDen == 100000000

\* x.abs() < 1e-8
AbsBelowEps(x) == IsFinite(x) /\ Abs(x[1]) <= (x[2] - 1) \div EpsDen

\* NearZero::is_near_zero
IsNearZero(v) == AbsBelowEps(v[1]) /\ AbsBelowEps(v[2]) /\ AbsBelowEps(v[3])

\* utils::reflect
Reflect(ray, normal) == VSub(ray, VScale(FMul(F(2), VDot(ray, normal)), normal))

\* utils::refract, from r_out_perp
RefractFrom(n, r_out_perp) ==
    VAdd(r_out_perp,
         VScale(FNeg(FSqrt(FAbs(FSub(F(1), VNormSq(r_out_perp))))), n))

\* utils::refract
Refract(uv, n, etai_over_etat) ==
    RefractFrom(n, VScale(etai_over_etat,
                          VAdd(uv, VScale(FMin(VDot(VNeg(uv), n), F(1)), n))))

\* Dielectric::reflectance, from r0
Schlick(r0, cos_theta) ==
    FAdd(r0, FMul(FSub(F(1), r0), FPowi(FSub(F(1), cos_theta), 5)))

\* Dielectric::reflectance
Reflectance(cos_theta, refraction_ratio) ==
    Schlick(FPowi(FDiv(FSub(F(1), refraction_ratio), FAdd(F(1), refraction_ratio)), 2),
            cos_theta)

Scattered(ray, attenuation) == [ray |-> ray, attenuation |-> attenuation]

\* "Account for when random vector subtracts the normal to zero"
LambertianDir(normal, direction) ==
    IF IsNearZero(direction) THEN normal ELSE direction

\* <Lambertian as Material>::scatter
ScatterLambertian(m, ray, hit, rnd) ==
    Scattered(Ray(hit.p, LambertianDir(hit.normal, VAdd(hit.normal, rnd.u))), m.albedo)

\* the test of <Metal as Material>::scatter on the scattered ray
MetalOut(m, hit, scattered) ==
    IF FGt(VDot(scattered.dir, hit.normal), F(0))
    THEN Scattered(scattered, m.albedo)
    ELSE None

\* <Metal as Material>::scatter
ScatterMetal(m, ray, hit, rnd) ==
    MetalOut(m, hit,
             Ray(hit.p, VAdd(Reflect(VNormalize(ray.dir), hit.normal),
                             VScale(m.fuzz, rnd.u))))

\* the choice of <Dielectric as Material>::scatter between reflection and refraction
DielectricDir(hit, rnd, refraction_ratio, unit_direction, cos_theta) ==
    LET sin_theta   == FSqrt(FSub(F(1), FMul(cos_theta, cos_theta)))
        can_refract == FLe(FMul(refraction_ratio, sin_theta), F(1))
    IN  IF ~can_refract \/ FGt(Reflectance(cos_theta, refraction_ratio), rnd.r)
        THEN Reflect(unit_direction, hit.normal)
        ELSE Refract(unit_direction, hit.normal, refraction_ratio)

\* `let cos_theta = f64::min((-unit_direction).dot(&hit.normal), 1.0)`
DielectricUnit(hit, rnd, refraction_ratio, unit_direction) ==
    DielectricDir(hit, rnd, refraction_ratio, unit_direction,
                  FMin(VDot(VNeg(unit_direction), hit.normal), F(1)))

\* <Dielectric as Material>::scatter
ScatterDielectric(m, ray, hit, rnd) ==
    Scattered(Ray(hit.p,
                  DielectricUnit(hit, rnd,
                                 IF hit.front THEN FDiv(F(1), m.ri) ELSE m.ri,
                                 VNormalize(ray.dir))),
              White)

\* Material::scatter, dispatched on the material
Scatter(m, ray, hit, rnd) ==
    IF m.kind = "lambertian" THEN ScatterLambertian(m, ray, hit, rnd)
    ELSE IF m.kind = "metal" THEN ScatterMetal(m, ray, hit, rnd)
    ELSE ScatterDielectric(m, ray, hit, rnd)

----------------------------------------------------------------------------
(* camera.rs: ray_color *)

\* Vector3::lerp: self * (1 - t) + rhs * t
Lerp(a, b, t) == VAdd(VScale(FSub(F(1), t), a), VScale(t, b))

\* the sky of ray_color
Sky(ray) ==
    LET unit == VNormalize(ray.dir)
        a    == FMul(Frac(1, 2), FAdd(unit[2], F(1)))
    IN  Lerp(White, SkyBlue, a)

Ret(color) == [kind |-> "ret", color |-> color]

Call(ray, depth, attenuation) ==
    [kind |-> "call", ray |-> ray, depth |-> depth, attenuation |-> attenuation]

\* the match on scatter's result with the recursive call made at the caller's depth
OnScatterSameDepth(depth, sc) ==
    IF sc # None THEN Call(sc.ray, depth, sc.attenuation) ELSE Ret(Black)

\* the match of ray_color on scatter's result: Some((scattered, attenuation))
\* gives attenuation * ray_color(&scattered, depth - 1, scene), None gives black
OnScatter(depth, sc) ==
    IF sc # None THEN Call(sc.ray, depth - 1, sc.attenuation) ELSE Ret(Black)

\* the match on scene.hit's result with an absorbed ray falling through to the sky
OnHitAbsorbedToSky(ray, depth, rnd, hit) ==
    IF hit # None /\ Scatter(hit.material, ray, hit, rnd) # None
    THEN OnScatter(depth, Scatter(hit.material, ray, hit, rnd))
    ELSE Ret(Sky(ray))

\* `if let Some(hit) = scene.hit(&ray, mint..INF)`, else the sky
OnHit(ray, depth, rnd, hit) ==
    IF hit # None THEN OnScatter(depth, Scatter(hit.material, ray, hit, rnd))
    ELSE Ret(Sky(ray))

\* ray_color with the sky returned when the bounce budget is exhausted
RayColorBodySkyAtZero(ray, depth, hs, rnd) ==
    IF depth <= 0 THEN Ret(Sky(ray))
    ELSE OnHit(ray, depth, rnd, SceneHit(hs, ray, MinT, INF))

\* One activation of ray_color, up to its return or its recursive call:
\* Ret(color) when it returns color itself, Call(scattered, depth - 1,
\* attenuation) when it returns attenuation * ray_color(scattered, depth - 1).
RayColorBody(ray, depth, hs, rnd) ==
    IF depth <= 0 THEN Ret(Black)
    ELSE OnHit(ray, depth, rnd, SceneHit(hs, ray, MinT, INF))

----------------------------------------------------------------------------
(* camera.rs: Camera, its derived fields and sample_ray *)

ZeroV == V(0, 0, 0)

\* Camera::new: the configuration fields as given, the derived fields of
\* Default::default().  No argument is checked.
CameraNew(width, aspect_ratio, samples_per_pixel, max_bounces, fov, lookfrom, lookat, vup, defocus_angle_degrees, focus_dist) ==
    [render_width          |-> width,
     aspect_ratio          |-> aspect_ratio,
     samples_per_pixel     |-> samples_per_pixel,
     max_bounces           |-> max_bounces,
     fov_degrees           |-> fov,
     lookfrom              |-> lookfrom,
     lookat                |-> lookat,
     vup                   |-> vup,
     defocus_angle_degrees |-> defocus_angle_degrees,
     focus_dist            |-> focus_dist,
     render_height         |-> 0,
     center                |-> ZeroV,
     pixel00_loc           |-> ZeroV,
     pixel_delta_u         |-> ZeroV,
     pixel_delta_v         |-> ZeroV,
     u                     |-> ZeroV,
     v                     |-> ZeroV,
     w                     |-> ZeroV,
     defocus_disk_u        |-> ZeroV,
     defocus_disk_v        |-> ZeroV]

\* the fields initialize assigns
Derived(c) ==
    <<c.render_height, c.center, c.pixel00_loc, c.pixel_delta_u, c.pixel_delta_v,
      c.u, c.v, c.w, c.defocus_disk_u, c.defocus_disk_v>>

\* `x as usize` rounding to the nearest integer, halves upwards
AsUsizeRounded(x) ==
    IF IsNaN(x) \/ x[1] < 0 THEN 0 ELSE (2 * x[1] + x[2]) \div (2 * x[2])

\* `x as usize` of a finite or NaN f64: towards zero, negatives and NaN to 0
AsUsize(x) ==
    IF IsNaN(x) \/ x[1] < 0 THEN 0 ELSE x[1] \div x[2]

\* degrees_to_radians(deg).tan(), for the angles of the model
TanDeg(deg) ==
    CASE deg = F(0)  -> F(0)
      [] deg = F(45) -> F(1)

\* `self.render_height = (self.render_width as f64 / self.aspect_ratio) as
\* usize; if self.render_height < 1 { self.render_height = 1 }` and
\* `self.center = self.lookfrom`
InitHeight(c) ==
    [c EXCEPT !.render_height =
                  IF AsUsize(FDiv(F(c.render_width), c.aspect_ratio)) < 1 THEN 1
                  ELSE AsUsize(FDiv(F(c.render_width), c.aspect_ratio)),
              !.center = c.lookfrom]

\* `let viewport_height = 2.0 * h * self.focus_dist`, h = (theta / 2.0).tan()
ViewportHeight(c) ==
    FMul(FMul(F(2), TanDeg(FDiv(c.fov_degrees, F(2)))), c.focus_dist)

\* `viewport_height * (self.render_width as f64) / (self.render_height as f64)`
ViewportWidth(c) ==
    FDiv(FMul(ViewportHeight(c), F(c.render_width)), F(c.render_height))

\* the camera frame: w, then u from w, then v from both
InitW(c) == [c EXCEPT !.w = VNormalize(VSub(c.lookfrom, c.lookat))]

InitU(c) == [c EXCEPT !.u = VNormalize(VCross(c.vup, c.w))]

InitV(c) == [c EXCEPT !.v = VCross(c.w, c.u)]

ViewportU(c) == VScale(ViewportWidth(c), c.u)

ViewportV(c) == VScale(ViewportHeight(c), VNeg(c.v))

\* the pixel-to-pixel deltas
InitDeltas(c) ==
    [c EXCEPT !.pixel_delta_u = VDivF(ViewportU(c), F(c.render_width)),
              !.pixel_delta_v = VDivF(ViewportV(c), F(c.render_height))]

\* the location of the upper left pixel
InitPixel00(c) ==
    [c EXCEPT !.pixel00_loc =
        VAdd(VSub(VSub(VSub(c.center, VScale(c.focus_dist, c.w)),
                       VDivF(ViewportU(c), F(2))),
                  VDivF(ViewportV(c), F(2))),
             VScale(Frac(1, 2), VAdd(c.pixel_delta_u, c.pixel_delta_v)))]

\* `self.focus_dist * (degrees_to_radians(self.defocus_angle_degrees / 2.0).tan())`
DefocusRadius(c) ==
    FMul(c.focus_dist, TanDeg(FDiv(c.defocus_angle_degrees, F(2))))

\* the defocus disk basis
InitDefocus(c) ==
    [c EXCEPT !.defocus_disk_u = VScale(DefocusRadius(c), c.u),
              !.defocus_disk_v = VScale(DefocusRadius(c), c.v)]

\* Camera::initialize: its assignments to self, in the order of the code
Initialize(c) ==
    InitDefocus(InitPixel00(InitDeltas(InitV(InitU(InitW(InitHeight(c)))))))

\* Camera::pixel_sample_square, rx and ry the two draws of rand()
PixelSampleSquare(c, rx, ry) ==
    VAdd(VScale(FAdd(Frac(-1, 2), rx), c.pixel_delta_u),
         VScale(FAdd(Frac(-1, 2), ry), c.pixel_delta_v))

\* Camera::defocus_disk_sample, p the draw of rand_in_unit_disk()
DefocusDiskSample(c, p) ==
    VAdd(VAdd(c.center, VScale(p[1], c.defocus_disk_u)), VScale(p[2], c.defocus_disk_v))

\* the origin of a sampled ray
RayOrigin(c, p) ==
    IF FLe(c.defocus_angle_degrees, F(0)) THEN c.center ELSE DefocusDiskSample(c, p)

\* the sampled point of pixel (i, j)
PixelSample(c, i, j, rx, ry) ==
    VAdd(VAdd(VAdd(c.pixel00_loc, VScale(F(j), c.pixel_delta_u)),
              VScale(F(i), c.pixel_delta_v)),
         PixelSampleSquare(c, rx, ry))

\* Camera::sample_ray, rnd the draws it makes
SampleRay(c, i, j, rnd) ==
    Ray(RayOrigin(c, rnd.p),
        VSub(PixelSample(c, i, j, rnd.rx, rnd.ry), RayOrigin(c, rnd.p)))

\* the camera Camera::render samples from, without its call of initialize
RenderCameraStale(c) == c

\* the camera Camera::render samples from: `self.initialize()` comes first
RenderCamera(c) == Initialize(c)

\* the Renderer of Camera::renderer on the initialized camera ic:
\* its own copies of the dimensions and a clone of the camera
RendererOf(ic) ==
    [render_width      |-> ic.render_width,
     render_height     |-> ic.render_height,
     samples_per_pixel |-> ic.samples_per_pixel,
     max_bounces       |-> ic.max_bounces,
     camera            |-> ic]

----------------------------------------------------------------------------
(* The resting values of each part of the state *)

NoQuery ==
    [op |-> "none"]

HitIdle ==
    /\ hittables = <<>>
    /\ hq = NoQuery
    /\ hres = None

PxIdle ==
    /\ px_spp = 0
    /\ px_n = 0
    /\ px_sum = Black
    /\ px_out = None

\* the walk before its first ray: the attenuations met, their product
\* accumulated front to back, the value the chain ended on and the value
\* the walk returns
NoWalk == [atts |-> <<>>, acc |-> None, end |-> None, out |-> None]

RcIdle ==
    /\ rc_walk = NoWalk
    /\ rc_hs = <<>>
    /\ rc_mb = 0
    /\ rc_frames = <<>>
    /\ rc_ret = None
    /\ rc_hits = 0
    /\ rc_scatters = 0
    /\ rc_steps = 0

CamIdle ==
    /\ cam = None
    /\ rend = None
    /\ sampled = None

RnIdle ==
    /\ rn = None
    /\ rn_out = {}
    /\ rn_pc = "idle"
    /\ rn_rows = {}
    /\ rn_slots = <<>>
    /\ rn_pixels = None
    /\ rn_k = 0
    /\ rn_image = None

----------------------------------------------------------------------------
(* One pixel's life: PPM::new gives it the default RGB, the render loop    *)
(* adds samples_per_pixel samples to it, PPM::save writes it.              *)

SampleColors == {Black, White, SkyBlue, Grey, RGB(NaN, NaN, NaN)}

PxInit ==
    /\ px_spp \in 0..MaxSpp
    /\ px_n = 0
    /\ px_sum = Black
    /\ px_out = None
    /\ HitIdle
    /\ RcIdle
    /\ CamIdle
    /\ RnIdle

\* one iteration of `for _ in 0..samples_per_pixel`
PxAccumulate(color) ==
    /\ px_n < px_spp
    /\ px_n' = px_n + 1
    /\ px_sum' = ColorAdd(px_sum, color)
    /\ UNCHANGED <<px_spp, px_out>>
    /\ UNCHANGED notPx

\* PPM::save writing the pixel
PxWrite ==
    /\ px_n = px_spp
    /\ px_out = None
    /\ px_out' = RGBWrite(px_sum, px_spp)
    /\ UNCHANGED <<px_spp, px_n, px_sum>>
    /\ UNCHANGED notPx

PxNext ==
    \/ \E color \in SampleColors : PxAccumulate(color)
    \/ PxWrite

SpecColor == PxInit /\ [][PxNext]_vars

\* C7: a pixel whose sum is samples_per_pixel * (1,1,1), samples_per_pixel
\* >= 1, is written as 255 255 255, and every written channel is an integer
\* in 0..255.
C7_WhiteIs255 ==
    px_out # None =>
        /\ \A ch \in 1..3 : px_out[ch] \in 0..255
        /\ (px_spp >= 1 /\ px_sum = RGB(F(px_spp), F(px_spp), F(px_spp)))
              => px_out = <<255, 255, 255>>

C7_Witness ==
    /\ px_out # None
    /\ px_spp >= 2
    /\ px_sum = RGB(F(px_spp), F(px_spp), F(px_spp))

----------------------------------------------------------------------------
(* One evaluation of ray_color, activation by activation.  The world is    *)
(* the y axis: spheres centred on it, rays along it, and random unit       *)
(* vectors along it, so that every square root taken is rational.          *)

Mirror == Metal(White, F(0))

RoughMetal == Metal(Grey, F(1))

Glass == Dielectric(Frac(3, 2))

AxisSpheres ==
    {Sphere(V(0, 3, 0), F(1), Lambertian(Grey)),
     Sphere(V(0, 3, 0), F(1), Mirror),
     Sphere(V(0, -3, 0), F(1), Mirror),
     Sphere(V(0, -3, 0), F(1), RoughMetal),
     Sphere(V(0, 0, 0), F(2), Glass)}

\* the scenes: up to MaxSpheres distinct spheres, in every order
AxisScenes ==
    {hs \in UNION {[1..n -> AxisSpheres] : n \in 0..MaxSpheres} :
        \A i, j \in 1..Len(hs) : hs[i] = hs[j] => i = j}

AxisRays ==
    {Ray(V(0, 0, 0), d) : d \in {V(0, 1, 0), V(0, -2, 0), V(0, 0, 0)}}

\* the draws of rand_unit_vector() and rand() of one scatter call
Draws == {[u |-> u, r |-> r] : u \in {V(0, 1, 0), V(0, -1, 0)}, r \in {F(0), Frac(1, 2)}}

Frame(ray, depth) == [ray |-> ray, depth |-> depth, att |-> None]

\* The iterative form of ray_color: it walks the bounce chain with the
\* draws the recursion makes, keeps the product of the attenuations met so
\* far, and returns black when a scatter absorbs or the depth is used up,
\* the background of the ray that misses times that product, and the
\* background itself when the first ray misses.
WalkReturn(walk, end, out) == [walk EXCEPT !.end = end, !.out = out]

WalkMiss(walk, bg) ==
    WalkReturn(walk, bg, IF walk.acc = None THEN bg ELSE ColorMul(walk.acc, bg))

WalkScatter(walk, sc) ==
    IF sc = None THEN WalkReturn(walk, Black, Black)
    ELSE [walk EXCEPT !.atts = Append(@, sc.attenuation),
                      !.acc = IF @ = None THEN sc.attenuation ELSE ColorMul(@, sc.attenuation)]

WalkHit(walk, ray, rnd, hit) ==
    IF hit = None THEN WalkMiss(walk, Sky(ray))
    ELSE WalkScatter(walk, Scatter(hit.material, ray, hit, rnd))

WalkStep(walk, ray, depth, hs, rnd) ==
    IF depth <= 0 THEN WalkReturn(walk, Black, Black)
    ELSE WalkHit(walk, ray, rnd, SceneHit(hs, ray, MinT, INF))

RcInit ==
    /\ rc_hs \in AxisScenes
    /\ rc_mb \in 0..MaxBounces
    /\ \E ray \in AxisRays : rc_frames = <<Frame(ray, rc_mb)>>
    /\ rc_ret = None
    /\ rc_hits = 0
    /\ rc_scatters = 0
    /\ rc_steps = 0
    /\ rc_walk = NoWalk
    /\ HitIdle
    /\ PxIdle
    /\ CamIdle
    /\ RnIdle

RcTop == rc_frames[Len(rc_frames)]

RcPop == SubSeq(rc_frames, 1, Len(rc_frames) - 1)

\* the scene.hit calls of one activation
HitCalls(ray, depth, hs) == IF depth <= 0 THEN 0 ELSE 1

\* the material.scatter calls of one activation
ScatterCalls(ray, depth, hs) ==
    IF depth <= 0 THEN 0
    ELSE IF SceneHit(hs, ray, MinT, INF) # None THEN 1 ELSE 0

RcCount ==
    /\ rc_hits' = rc_hits + HitCalls(RcTop.ray, RcTop.depth, rc_hs)
    /\ rc_scatters' = rc_scatters + ScatterCalls(RcTop.ray, RcTop.depth, rc_hs)
    /\ rc_steps' = rc_steps + 1

\* the walk follows the activation on top of the stack
RcWalk(rnd) == rc_walk' = WalkStep(rc_walk, RcTop.ray, RcTop.depth, rc_hs, rnd)

\* an activation that returns a colour itself: depth 0, a miss, or absorption
RcLeaf(rnd) ==
    /\ rc_frames # <<>>
    /\ rc_ret = None
    /\ \E out \in {RayColorBody(RcTop.ray, RcTop.depth, rc_hs, rnd)} :
          /\ out.kind = "ret"
          /\ rc_ret' = out.color
    /\ rc_frames' = RcPop
    /\ RcCount
    /\ RcWalk(rnd)
    /\ UNCHANGED <<rc_hs, rc_mb>>
    /\ UNCHANGED notRc

\* an activation that scatters and calls ray_color on the scattered ray
RcRecurse(rnd) ==
    /\ rc_frames # <<>>
    /\ rc_ret = None
    /\ \E out \in {RayColorBody(RcTop.ray, RcTop.depth, rc_hs, rnd)} :
          /\ out.kind = "call"
          /\ rc_frames' = Append([rc_frames EXCEPT ![Len(rc_frames)].att = out.attenuation],
                                 Frame(out.ray, out.depth))
    /\ RcCount
    /\ RcWalk(rnd)
    /\ UNCHANGED <<rc_hs, rc_mb, rc_ret>>
    /\ UNCHANGED notRc

\* the caller resumes: attenuation * (the value the callee returned)
RcResume ==
    /\ rc_frames # <<>>
    /\ rc_ret # None
    /\ rc_ret' = ColorMul(RcTop.att, rc_ret)
    /\ rc_frames' = RcPop
    /\ rc_steps' = rc_steps + 1
    /\ UNCHANGED <<rc_hs, rc_mb, rc_hits, rc_scatters, rc_walk>>
    /\ UNCHANGED notRc

RcDone == rc_frames = <<>> /\ rc_ret # None

\* some step of the evaluation can be taken
RcCanStep ==
    /\ rc_frames # <<>>
    /\ \/ rc_ret # None
       \/ \E rnd \in Draws :
             RayColorBody(RcTop.ray, RcTop.depth, rc_hs, rnd).kind \in {"ret", "call"}

RcNext ==
    \/ \E rnd \in Draws : RcLeaf(rnd)
    \/ \E rnd \in Draws : RcRecurse(rnd)
    \/ RcResume

SpecRay == RcInit /\ [][RcNext]_vars

\* C8: one evaluation of ray_color makes at most max_bounces scene.hit calls
\* and at most max_bounces scatter calls, every recursive call has depth one
\* less than its caller, and the evaluation ends: it is never stuck before
\* its outermost call has returned, and it takes at most 2 * max_bounces + 1
\* steps.
C8_BoundedBounces ==
    /\ rc_hits <= rc_mb
    /\ rc_scatters <= rc_mb
    /\ \A k \in 1..Len(rc_frames) : rc_frames[k].depth = rc_mb - (k - 1)
    /\ rc_steps <= 2 * rc_mb + 1
    /\ RcDone \/ RcCanStep

C8_Witness ==
    /\ RcDone
    /\ rc_mb >= 2
    /\ rc_hits = rc_mb
    /\ rc_scatters = rc_mb

----------------------------------------------------------------------------
(* ray_color along chains of several bounces.  Two spheres on the y axis,  *)
(* rays that start along it, and one random unit vector off it, chosen so  *)
(* that every square root taken is rational and a ray scattered off the    *)
(* axis misses both spheres.                                               *)

ChainSpheres ==
    {Sphere(V(0, 3, 0), F(1), Lambertian(RGB(Frac(3, 4), Frac(5, 8), Frac(7, 8)))),
     Sphere(V(0, -3, 0), F(1), Lambertian(RGB(Frac(7, 8), Frac(3, 4), Frac(5, 8)))),
     Sphere(V(0, -3, 0), F(1), Metal(RGB(Frac(5, 8), Frac(7, 8), Frac(3, 4)), F(1)))}

\* the scenes: up to two distinct spheres, in every order
ChainScenes ==
    {hs \in UNION {[1..n -> ChainSpheres] : n \in 0..2} :
        \A i, j \in 1..Len(hs) : hs[i] = hs[j] => i = j}

ChainRays == {Ray(V(0, 0, 0), d) : d \in {V(0, 1, 0), V(0, -2, 0)}}

\* the draws of one scatter call: a unit vector along the axis, which turns
\* the ray back or has it absorbed, or off it, which sends it to the sky
ChainDraws ==
    {[u |-> u, r |-> F(0)] :
        u \in {V(0, -1, 0), <<Frac(24, 25), Frac(7, 25), F(0)>>, <<Frac(24, 25), Frac(-7, 25), F(0)>>}}

ChInit ==
    /\ rc_hs \in ChainScenes
    /\ rc_mb \in 1..MaxDepth
    /\ \E ray \in ChainRays : rc_frames = <<Frame(ray, rc_mb)>>
    /\ rc_ret = None
    /\ rc_hits = 0
    /\ rc_scatters = 0
    /\ rc_steps = 0
    /\ rc_walk = NoWalk
    /\ HitIdle
    /\ PxIdle
    /\ CamIdle
    /\ RnIdle

ChNext ==
    \/ \E rnd \in ChainDraws : RcLeaf(rnd)
    \/ \E rnd \in ChainDraws : RcRecurse(rnd)
    \/ RcResume

SpecChain == ChInit /\ [][ChNext]_vars

\* the attenuations multiplied onto the end value from the last bounce back
\* to the first: a1 * (a2 * (... * (ak * end)))
RECURSIVE FoldBack(_, _)
FoldBack(atts, end) ==
    IF atts = <<>> THEN end ELSE ColorMul(Head(atts), FoldBack(Tail(atts), end))

C12_EndsBlack == RcDone /\ rc_mb >= 1 /\ Len(rc_walk.atts) >= 1 /\ rc_walk.end = Black

----------------------------------------------------------------------------
(* One render.  Camera::render fills the image pixel by pixel in its two   *)
(* loops.  Renderer::render_parallel runs one closure per row and, inside  *)
(* it, one closure per pixel, on rayon's pool in any order; collect        *)
(* returns the Vec of their results, which is then copied into the image.  *)
(* A pixel closure reads only the shared scene and camera and yields its   *)
(* own result, so it is one step.  The ray of each sample is drawn from    *)
(* RenderRays, rays along the y axis, where every square root is rational. *)

RenderRays == {Ray(ZeroV, V(0, 1, 0)), Ray(ZeroV, V(0, -2, 0))}

RenderDraws ==
    {[u |-> V(0, 1, 0), r |-> F(0)], [u |-> V(0, -1, 0), r |-> Frac(1, 2)]}

RenderScenes == {<<>>, <<Sphere(V(0, 3, 0), F(1), Lambertian(Grey))>>}

\* attenuation * (what the recursive call returned), with the scene.hit
\* calls of both counted
Attenuate(attenuation, hits, r) ==
    [color |-> ColorMul(attenuation, r.color), hits |-> hits + r.hits]

\* ray_color to its end: the colour it returns and the scene.hit calls it
\* made; ds[d] are the draws of the activation of depth d
RECURSIVE RayColor(_, _, _, _)
Unwind(out, hits, hs, ds) ==
    IF out.kind = "ret" THEN [color |-> out.color, hits |-> hits]
    ELSE Attenuate(out.attenuation, hits, RayColor(out.ray, out.depth, hs, ds))

RayColor(ray, depth, hs, ds) ==
    Unwind(RayColorBody(ray, depth, hs, ds[depth]), HitCalls(ray, depth, hs), hs, ds)

\* what one sample of a render can add to its pixel
SampleOutcomes(hs, mb) ==
    {RayColor(ray, mb, hs, ds) : ray \in RenderRays, ds \in [0..mb -> RenderDraws]}

\* a pixel: its RGB, with the samples summed into it, the scene.hit calls
\* made for them and the pixel (i, j) whose samples they are (<<>> if none)
Cell(color, n, hits) == [color |-> color, n |-> n, hits |-> hits, px |-> <<>>]

\* the value computed for pixel (i, j)
At(cell, i, j) == [cell EXCEPT !.px = <<i, j>>]

\* PPM's Index<(usize, usize)>: `&self.data[y * self.width + x]`
PPMIndex(width, y, x) == y * width + x

\* the place of a result in a Vec of the grid's size filled in the order the
\* closures finish
CollectIndexByCompletion(slots, width, i, j) == Cardinality({k \in DOMAIN slots : slots[k] # None}) % Cardinality(DOMAIN slots)

\* the place of the result of the closure of pixel (i, j) in the Vec that
\* collect returns: the order of the iterators, rows first, whatever the
\* order the closures ran in
CollectIndex(slots, width, i, j) == i * width + j

\* RGB::default()
DefaultCell == Cell(Black, 0, 0)

\* `for _ in 0..samples_per_pixel { ... sample_result += ... }`
RECURSIVE SumSamples(_, _)
SumSamples(cs, k) ==
    IF k = 0 THEN DefaultCell
    ELSE Cell(ColorAdd(SumSamples(cs, k - 1).color, cs[k].color),
              k,
              SumSamples(cs, k - 1).hits + cs[k].hits)

\* PPM::new: w * h pixels of RGB::default()
PPMNew(w, h) == [k \in 0..(w * h - 1) |-> DefaultCell]

\* collect returns at once, whatever closures are still to run
AllFinishedNoWait(slots) == TRUE

\* collect returns when every pixel closure has yielded its result
AllFinished(slots) == \A k \in DOMAIN slots : slots[k] # None

Renders ==
    {[by |-> by, width |-> w, height |-> h, spp |-> spp, mb |-> mb, scene |-> hs] :
        by \in {"render", "render_parallel"},
        w \in 0..MaxPixels, h \in 1..MaxPixels,
        spp \in 0..MaxSamples, mb \in 0..MaxBounces, hs \in RenderScenes}

RnInit ==
    /\ rn \in {r \in Renders : r.width * r.height <= MaxPixels}
    /\ rn_out = SampleOutcomes(rn.scene, rn.mb)
    /\ rn_pc = "start"
    /\ rn_rows = {}
    /\ rn_slots = <<>>
    /\ rn_pixels = None
    /\ rn_k = 0
    /\ rn_image = None
    /\ HitIdle
    /\ PxIdle
    /\ RcIdle
    /\ CamIdle

\* Camera::render up to its loops
SeqBegin ==
    /\ rn.by = "render"
    /\ rn_pc = "start"
    /\ rn_image' = PPMNew(rn.width, rn.height)
    /\ rn_pc' = "loop"
    /\ UNCHANGED <<rn, rn_out, rn_rows, rn_slots, rn_pixels, rn_k>>
    /\ UNCHANGED notRn

\* one pixel of the loops of Camera::render: `image[(i, j)] = sample_result.into()`
SeqPixel(cs) ==
    /\ rn_pc = "loop"
    /\ rn_k < rn.width * rn.height
    /\ \E i \in {rn_k \div rn.width}, j \in {rn_k % rn.width} :
          rn_image' = [rn_image EXCEPT ![PPMIndex(rn.width, i, j)] = At(SumSamples(cs, rn.spp), i, j)]
    /\ rn_k' = rn_k + 1
    /\ UNCHANGED <<rn, rn_out, rn_pc, rn_rows, rn_slots, rn_pixels>>
    /\ UNCHANGED notRn

\* Camera::render returns the image
SeqReturn ==
    /\ rn_pc = "loop"
    /\ rn_k = rn.width * rn.height
    /\ rn_pc' = "returned"
    /\ UNCHANGED <<rn, rn_out, rn_rows, rn_slots, rn_pixels, rn_k, rn_image>>
    /\ UNCHANGED notRn

\* render_parallel up to its parallel iterator
ParBegin ==
    /\ rn.by = "render_parallel"
    /\ rn_pc = "start"
    /\ rn_image' = PPMNew(rn.width, rn.height)
    /\ rn_slots' = [k \in 0..(rn.width * rn.height - 1) |-> None]
    /\ rn_pc' = "tasks"
    /\ UNCHANGED <<rn, rn_out, rn_rows, rn_pixels, rn_k>>
    /\ UNCHANGED notRn

\* the closure of row i starts: it makes the parallel iterator of its pixels
RowStart(i) ==
    /\ rn_pc = "tasks"
    /\ i \in 0..(rn.height - 1)
    /\ i \notin rn_rows
    /\ rn_rows' = rn_rows \cup {i}
    /\ UNCHANGED <<rn, rn_out, rn_pc, rn_slots, rn_pixels, rn_k, rn_image>>
    /\ UNCHANGED notRn

\* the closure of pixel (i, j) runs
PixelTask(i, j, cs) ==
    /\ rn_pc = "tasks"
    /\ i \in rn_rows
    /\ j \in 0..(rn.width - 1)
    /\ rn_slots[CollectIndex(rn_slots, rn.width, i, j)] = None
    /\ rn_slots' = [rn_slots EXCEPT ![CollectIndex(rn_slots, rn.width, i, j)] = At(SumSamples(cs, rn.spp), i, j)]
    /\ UNCHANGED <<rn, rn_out, rn_pc, rn_rows, rn_pixels, rn_k, rn_image>>
    /\ UNCHANGED notRn

\* collect returns the Vec `pixels`
Collect ==
    /\ rn_pc = "tasks"
    /\ rn_rows = 0..(rn.height - 1)
    /\ AllFinished(rn_slots)
    /\ rn_pixels' = rn_slots
    /\ rn_pc' = "collected"
    /\ UNCHANGED <<rn, rn_out, rn_rows, rn_slots, rn_k, rn_image>>
    /\ UNCHANGED notRn

\* the copy loops `image[(i, j)] = pixels[i * self.render_width + j]` and
\* the return of the image
ParReturn ==
    /\ rn_pc = "collected"
    /\ rn_image' = [k \in DOMAIN rn_image |-> rn_pixels[k]]
    /\ rn_pc' = "returned"
    /\ UNCHANGED <<rn, rn_out, rn_rows, rn_slots, rn_pixels, rn_k>>
    /\ UNCHANGED notRn

RnNext ==
    \/ SeqBegin
    \/ \E cs \in [1..rn.spp -> rn_out] : SeqPixel(cs)
    \/ SeqReturn
    \/ ParBegin
    \/ \E i \in 0..(MaxPixels - 1) : RowStart(i)
    \/ \E i \in 0..(MaxPixels - 1), j \in 0..(MaxPixels - 1), cs \in [1..rn.spp -> rn_out] :
          PixelTask(i, j, cs)
    \/ Collect
    \/ ParReturn

SpecRender == RnInit /\ [][RnNext]_vars

\* C1: with max_bounces = 0 every pixel of the image a render returns has
\* an accumulated radiance of exactly (0, 0, 0), whatever the scene and
\* samples_per_pixel, and no sample intersected the scene.
C1_BlackAtZeroBounces ==
    (rn_pc = "returned" /\ rn.mb = 0) =>
        \A k \in DOMAIN rn_image :
            /\ rn_image[k].color = Black
            /\ rn_image[k].hits = 0

C1_Witness ==
    /\ rn_pc = "returned"
    /\ rn.mb = 0
    /\ rn.scene # <<>>
    /\ rn.spp >= 2
    /\ rn.width * rn.height >= 2
    /\ \A k \in DOMAIN rn_image : rn_image[k].n = rn.spp

\* C2: render_parallel returns the image only after every pixel closure
\* has finished: when collect has returned no closure is outstanding, and
\* at the return each of the render_width * render_height cells holds the
\* result of its closure, a sum of exactly samples_per_pixel samples.
C2_GridFullAtHandoff ==
    /\ rn_pc = "collected" => \A k \in DOMAIN rn_slots : rn_slots[k] # None
    /\ (rn_pc = "returned" /\ rn.by = "render_parallel") =>
          /\ DOMAIN rn_image = 0..(rn.width * rn.height - 1)
          /\ \A k \in DOMAIN rn_image :
                /\ rn_slots[k] # None
                /\ rn_image[k] = rn_slots[k]
                /\ rn_image[k].n = rn.spp

C2_Witness ==
    /\ rn_pc = "returned"
    /\ rn.by = "render_parallel"
    /\ rn.height >= 2
    /\ rn.spp >= 2
    /\ \E k \in DOMAIN rn_image : rn_image[k].color # rn_image[0].color

----------------------------------------------------------------------------
(* The scene builder and hit queries: Scene::add, Scene::clear,            *)
(* Sphere::hit and Scene::hit applied to rays and intervals drawn from     *)
(* small sets.                                                             *)

TestMaterial(radius) ==
    IF radius = F(1) THEN Lambertian(Grey)
    ELSE IF radius = F(2) THEN Dielectric(Frac(3, 2))
    ELSE Metal(Grey, F(0))

\* the spheres a scene is built from; the code accepts any radius
TestSpheres ==
    {Sphere(c, r, TestMaterial(r)) :
        c \in {V(3, 0, 0), V(0, 0, 0), V(2, 1, 0)}, r \in {F(1), F(2)}}
    \cup {Sphere(V(3, 0, 0), F(-1), TestMaterial(F(-1)))}

TestRays ==
    {Ray(o, d) : o \in {V(0, 0, 0), V(-1, 0, 0)},
                 d \in {V(1, 0, 0), V(2, 0, 0), V(-1, 0, 0), V(1, 1, 0), V(0, 0, 0)}}

TestRanges == {<<F(0), INF>>, <<MinT, INF>>, <<MinT, F(3)>>}

\* the queries whose square roots are rational
Representable(hs, ray) ==
    \A k \in 1..Len(hs) : SqrtExact(Discriminant(hs[k], ray))

HitInit ==
    /\ HitIdle
    /\ PxIdle
    /\ RcIdle
    /\ CamIdle
    /\ RnIdle

\* Scene::add
SceneAdd(s) ==
    /\ UNCHANGED notHit
    /\ Len(hittables) < MaxSpheres
    /\ hittables' = Append(hittables, s)
    /\ hq' = NoQuery
    /\ hres' = None

\* Scene::clear
SceneClear ==
    /\ UNCHANGED notHit
    /\ hittables # <<>>
    /\ hittables' = <<>>
    /\ hq' = NoQuery
    /\ hres' = None

\* a call of Sphere::hit on member k
SphereHitCall(k, ray, rg) ==
    /\ UNCHANGED notHit
    /\ hq = NoQuery
    /\ k \in 1..Len(hittables)
    /\ Representable(hittables, ray)
    /\ hq' = [op |-> "sphere", ray |-> ray, tmin |-> rg[1], tmax |-> rg[2], idx |-> k]
    /\ hres' = SphereHit(hittables[k], ray, rg[1], rg[2])
    /\ UNCHANGED hittables

\* a call of Scene::hit
SceneHitCall(ray, rg) ==
    /\ UNCHANGED notHit
    /\ hq = NoQuery
    /\ Representable(hittables, ray)
    /\ hq' = [op |-> "scene", ray |-> ray, tmin |-> rg[1], tmax |-> rg[2], idx |-> 0]
    /\ hres' = SceneHit(hittables, ray, rg[1], rg[2])
    /\ UNCHANGED hittables

\* the caller takes the result of the call
HitReturn ==
    /\ UNCHANGED notHit
    /\ hq # NoQuery
    /\ hq' = NoQuery
    /\ hres' = None
    /\ UNCHANGED hittables

HitNext ==
    \/ \E s \in TestSpheres : SceneAdd(s)
    \/ SceneClear
    \/ \E k \in 1..MaxSpheres, ray \in TestRays, rg \in TestRanges : SphereHitCall(k, ray, rg)
    \/ \E ray \in TestRays, rg \in TestRanges : SceneHitCall(ray, rg)
    \/ HitReturn

SpecHit == HitInit /\ [][HitNext]_vars

----------------------------------------------------------------------------
(* Claims about Sphere::hit and Scene::hit *)

ZeroDir(ray) == VNormSq(ray.dir) = F(0)

Inside(t, tmin, tmax) == FLt(tmin, t) /\ FLt(t, tmax)

\* the hits of the members, each asked alone over (tmin, tmax), that lie inside it
MemberHits(hs, ray, tmin, tmax) ==
    {h \in {SphereHit(hs[k], ray, tmin, tmax) : k \in 1..Len(hs)} :
        h # None /\ Inside(h.t, tmin, tmax)}

Orders(hs) ==
    {p \in [1..Len(hs) -> 1..Len(hs)] : \A i, j \in 1..Len(hs) : p[i] = p[j] => i = j}

Permuted(hs, p) == [i \in 1..Len(hs) |-> hs[p[i]]]

SameT(h1, h2) == IF h1 = None \/ h2 = None THEN h1 = h2 ELSE h1.t = h2.t

NearestOf(hs, ray, tmin, tmax, res) ==
    LET M == MemberHits(hs, ray, tmin, tmax)
    IN  /\ (res = None) <=> (M = {})
        /\ res # None => /\ \E h \in M : h.t = res.t
                         /\ \A h \in M : FLe(res.t, h.t)
        /\ \A p \in Orders(hs) :
              SameT(SceneHit(Permuted(hs, p), ray, tmin, tmax), res)

\* C3: Scene.hit returns the member hit with the smallest t inside
\* (tmin, tmax), none exactly when no member has one, and the same t for
\* every order of the members.
C3_SceneHitNearest ==
    hq.op = "scene" => NearestOf(hittables, hq.ray, hq.tmin, hq.tmax, hres)

\* C3 on rays of non-zero direction, the case the missing guard of C6 leaves intact
C3_NonZeroDir ==
    (hq.op = "scene" /\ ~ZeroDir(hq.ray))
        => NearestOf(hittables, hq.ray, hq.tmin, hq.tmax, hres)

NormalOpposes(sphere, ray, h) ==
    LET outward == VDivF(VSub(h.p, sphere.center), sphere.radius)
    IN  /\ FLe(VDot(ray.dir, h.normal), F(0))
        /\ h.front <=> FLt(VDot(ray.dir, outward), F(0))
        /\ ~h.front => h.normal = VNeg(outward)

\* C4: every hit record of Sphere.hit has ray.direction . normal <= 0, front
\* exactly when ray.direction . outward < 0, and the negated outward normal
\* when front is false.
C4_NormalOpposesRay ==
    (hq.op = "sphere" /\ hres # None)
        => NormalOpposes(hittables[hq.idx], hq.ray, hres)

\* C4 on rays of non-zero direction
C4_NonZeroDir ==
    (hq.op = "sphere" /\ hres # None /\ ~ZeroDir(hq.ray))
        => NormalOpposes(hittables[hq.idx], hq.ray, hres)

\* C6: Sphere.hit returns no hit for a ray whose direction has zero length.
C6_ZeroDirNoHit ==
    (hq.op = "sphere" /\ ZeroDir(hq.ray)) => hres = None

\* what the code returns there instead: a hit record whose t is 0/0
C6_ZeroDirHitsNaN ==
    (hq.op = "sphere" /\ ZeroDir(hq.ray)) => (hres # None /\ IsNaN(hres.t))

\* the two roots of the quadratic of a sphere and a ray, nearer first
RootsOf(sphere, ray) ==
    LET oc     == VSub(ray.orig, sphere.center)
        half_b == VDot(oc, ray.dir)
        sqrtd  == FSqrt(Discriminant(sphere, ray))
        a      == VNormSq(ray.dir)
    IN  <<FDiv(FSub(FNeg(half_b), sqrtd), a), FDiv(FAdd(FNeg(half_b), sqrtd), a)>>

\* the first of the roots strictly inside (tmin, tmax), as <<t>>, or <<>>
FirstInside(roots, tmin, tmax) ==
    IF Inside(roots[1], tmin, tmax) THEN <<roots[1]>>
    ELSE IF Inside(roots[2], tmin, tmax) THEN <<roots[2]>>
    ELSE <<>>

\* a query of Sphere::hit with non-zero direction and non-negative discriminant
SolvableQuery ==
    /\ hq.op = "sphere"
    /\ ~ZeroDir(hq.ray)
    /\ FGe(Discriminant(hittables[hq.idx], hq.ray), F(0))

\* C11: with a non-negative discriminant and a non-zero direction,
\* Sphere.hit returns the near root if it lies strictly inside (tmin, tmax),
\* otherwise the far root if that lies strictly inside, otherwise none; a
\* root equal to tmin or tmax is never returned.
C11_RootChoice ==
    SolvableQuery =>
        /\ (IF hres = None THEN <<>> ELSE <<hres.t>>)
              = FirstInside(RootsOf(hittables[hq.idx], hq.ray), hq.tmin, hq.tmax)
        /\ hres # None => Inside(hres.t, hq.tmin, hq.tmax)

\* the near root sits on tmin and the far root is returned
C11_Witness ==
    /\ SolvableQuery
    /\ RootsOf(hittables[hq.idx], hq.ray)[1] = hq.tmin
    /\ hres # None
    /\ hres.t = RootsOf(hittables[hq.idx], hq.ray)[2]

\* the far root sits on tmax and nothing is returned
C11_FarOnTmax ==
    /\ SolvableQuery
    /\ RootsOf(hittables[hq.idx], hq.ray)[2] = hq.tmax
    /\ hres = None

----------------------------------------------------------------------------
(* A Camera in use: its public fields are set, Renderers are made from it, *)
(* and it and its Renderers render.  A render is a blocking call on        *)
(* `&mut self` (Camera::render) or on a Renderer that owns a clone of the  *)
(* camera, so nothing changes the camera it samples from while it runs;    *)
(* each render is one step here, and `sampled` records its sample_ray      *)
(* calls.                                                                  *)

Aspects == {F(-1), Frac(2, 3)}

Lookfroms == {V(0, 0, 1), V(2, 0, 0)}

\* the scenes handed to a render; the code accepts any radius and any index
CamScenes ==
    {<<>>,
     <<Sphere(V(0, 3, 0), F(-1), Lambertian(Grey)),
       Sphere(V(0, -3, 0), F(1), Dielectric(F(0)))>>}

\* the draws of the first sample_ray call of a render
FirstDraws == [rx |-> Frac(1, 2), ry |-> Frac(1, 4), p |-> <<Frac(1, 2), Frac(-1, 2)>>]

TestCamera(width, aspect_ratio, lookfrom) ==
    CameraNew(width, aspect_ratio, 1, 1, F(90), lookfrom, ZeroV, V(0, 1, 0), F(90), F(1))

\* what a render on camera c with a width x height image leaves in `sampled`
Sampling(by, c, width, height, scene) ==
    [by     |-> by,
     camera |-> c,
     width  |-> width,
     height |-> height,
     scene  |-> scene,
     calls  |-> width * height * c.samples_per_pixel,
     first  |-> IF width * height * c.samples_per_pixel > 0
                THEN SampleRay(c, 0, 0, FirstDraws) ELSE None]

CamInit ==
    /\ \E width \in 0..MaxWidth, a \in Aspects, lf \in Lookfroms :
          cam = TestCamera(width, a, lf)
    /\ rend = None
    /\ sampled = None
    /\ HitIdle
    /\ PxIdle
    /\ RcIdle
    /\ RnIdle

\* an assignment to the public field render_width
SetWidth(width) ==
    /\ cam.render_width # width
    /\ cam' = [cam EXCEPT !.render_width = width]
    /\ sampled' = None
    /\ UNCHANGED rend
    /\ UNCHANGED notCam

\* an assignment to the public field aspect_ratio
SetAspect(a) ==
    /\ cam.aspect_ratio # a
    /\ cam' = [cam EXCEPT !.aspect_ratio = a]
    /\ sampled' = None
    /\ UNCHANGED rend
    /\ UNCHANGED notCam

\* an assignment to the public field lookfrom
SetLookfrom(lf) ==
    /\ cam.lookfrom # lf
    /\ cam' = [cam EXCEPT !.lookfrom = lf]
    /\ sampled' = None
    /\ UNCHANGED rend
    /\ UNCHANGED notCam

\* Camera::renderer
CameraRenderer ==
    /\ cam' = Initialize(cam)
    /\ rend' = RendererOf(cam')
    /\ sampled' = None
    /\ UNCHANGED notCam

\* Camera::render
CameraRender(scene) ==
    /\ cam' = RenderCamera(cam)
    /\ sampled' = Sampling("render", cam', cam'.render_width, cam'.render_height, scene)
    /\ UNCHANGED rend
    /\ UNCHANGED notCam

\* Renderer::render_parallel
RenderParallel(scene) ==
    /\ rend # None
    /\ sampled' = Sampling("render_parallel", rend.camera,
                           rend.render_width, rend.render_height, scene)
    /\ UNCHANGED <<cam, rend>>
    /\ UNCHANGED notCam

CamNext ==
    \/ \E width \in 0..MaxWidth : SetWidth(width)
    \/ \E a \in Aspects : SetAspect(a)
    \/ \E lf \in Lookfroms : SetLookfrom(lf)
    \/ CameraRenderer
    \/ \E scene \in CamScenes : CameraRender(scene)
    \/ \E scene \in CamScenes : RenderParallel(scene)

SpecCamera == CamInit /\ [][CamNext]_vars

----------------------------------------------------------------------------
(* Claims about the camera *)

ValidSphere(s) ==
    /\ FGe(s.radius, F(0))
    /\ s.material.kind = "dielectric" => FGt(s.material.ri, F(0))

\* C5: no camera with render width <= 0 or aspect ratio <= 0, no sphere with
\* negative radius and no dielectric with refraction index <= 0 is ever used
\* by a render: construction rejects them.
C5_ConfigRejected ==
    sampled # None =>
        /\ sampled.camera.render_width >= 1
        /\ FGt(sampled.camera.aspect_ratio, F(0))
        /\ \A k \in 1..Len(sampled.scene) : ValidSphere(sampled.scene[k])

\* the f64 quotient render_width / aspect_ratio of a camera
HeightQuotient(c) == FDiv(F(c.render_width), c.aspect_ratio)

Max1(n) == IF n < 1 THEN 1 ELSE n

\* round(q) for q >= 0, halves away from zero
Round(q) == (2 * q[1] + q[2]) \div (2 * q[2])

\* floor(q) for q >= 0
Floor(q) == q[1] \div q[2]

InitializedValid(r) ==
    /\ r # None
    /\ r.camera.render_width >= 1
    /\ FGt(r.camera.aspect_ratio, F(0))

\* C9: after initialize, render_height = max(1, round(render_width /
\* aspect_ratio)) for every render_width >= 1 and aspect_ratio > 0.
C9_HeightRounded ==
    InitializedValid(rend) =>
        rend.camera.render_height = Max1(Round(HeightQuotient(rend.camera)))

\* C9 as amended: after initialize, render_height = max(1, the quotient
\* render_width / aspect_ratio truncated towards zero) for every
\* render_width >= 1 and aspect_ratio > 0.
C9_HeightTruncated ==
    InitializedValid(rend) =>
        rend.camera.render_height = Max1(Floor(HeightQuotient(rend.camera)))

\* a quotient of 3/2, which initialize turns into a height of 1
C9_Witness ==
    /\ InitializedValid(rend)
    /\ HeightQuotient(rend.camera) = Frac(3, 2)
    /\ rend.camera.render_height = 1

\* C10: every sample_ray call of a render runs on a camera whose derived
\* fields are those initialize computes from that camera's configuration
\* fields, and the image of the render has that camera's render_width and
\* derived render_height, whatever field changes, renderer() calls and
\* renders came before.
C10_SampledCameraFresh ==
    sampled # None =>
        /\ Derived(sampled.camera) = Derived(Initialize(sampled.camera))
        /\ sampled.width = sampled.camera.render_width
        /\ sampled.height = sampled.camera.render_height
        /\ sampled.first # None =>
              sampled.first = SampleRay(Initialize(sampled.camera), 0, 0, FirstDraws)

\* a render_parallel that sampled from its Renderer's camera after the
\* Camera it was made from was changed and rendered from again
C10_Witness ==
    /\ sampled # None
    /\ sampled.by = "render_parallel"
    /\ sampled.calls > 0
    /\ sampled.camera.render_width # cam.render_width
    /\ sampled.camera.lookfrom # cam.lookfrom
    /\ Derived(cam) = Derived(Initialize(cam))
    /\ Derived(cam) # Derived(sampled.camera)

====
